---- MODULE Spec2Model ----
(***************************************************************************)
(* Model of the batch pipeline of app.py: process_videos (validation,      *)
(* workspace acquisition, the sequential per-item loop, aggregation and    *)
(* cleanup), ensure_base_temp_dir and progress_hook.                       *)
(*                                                                         *)
(* The downloader (yt_dlp), the filesystem and the UI toolkit are the      *)
(* environment: what they return or raise is chosen nondeterministically.  *)
(***************************************************************************)
EXTENDS Integers, Sequences, FiniteSets, TLC

VARIABLES
    urls,                   \* the text handed to process_videos (sequence of characters)
    pc,                     \* position of the run inside process_videos
    raw_url_list,           \* stripped non-empty lines (line 60)
    valid_urls_to_process,  \* lines accepted by YOUTUBE_URL_PATTERN (lines 67-72)
    i,                      \* 1-based index of the loop of line 84
    download_links,         \* st.session_state.download_links
    processing_done,        \* st.session_state.processing_done
    base_exists,            \* os.path.exists(BASE_TEMP_AUDIO_DIR)
    base_creatable,         \* whether os.makedirs(BASE_TEMP_AUDIO_DIR) can succeed
    current_batch_temp_dir, \* None or the directory returned by mkdtemp
    batch_dirs,             \* batch subdirectories present under the base root
    files,                  \* files present in the batch directory
    video_title,            \* hook_data['video_title']
    processed_info,         \* result of ydl.extract_info(url, download=True)
    progress_log,           \* values sent to the current item's progress bar
    hooks,                  \* downloader callbacks delivered for the current item
    hook_d,                 \* payload of the last downloader callback
    exc,                    \* exception caught by the current item's handlers
    probe_warning,          \* the warning of line 126 was shown for the current item
    statuses,               \* success/error statuses shown per item, in order
    skipped,                \* lines reported as skipped by the validator
    reports,                \* batch-level messages emitted by the run
    prior_results,          \* download_links held records when this invocation began
    race                    \* the runs of other sessions, by run: position, text, directory

vars == << urls, pc, raw_url_list, valid_urls_to_process, i, download_links,
           processing_done, base_exists, base_creatable, current_batch_temp_dir,
           batch_dirs, files, video_title, processed_info, progress_log, hooks,
           hook_d, exc, probe_warning, statuses, skipped, reports,
           prior_results, race >>

\* what a step of one invocation leaves alone
outside_vars == << prior_results, race >>

None == "None"

(***************************************************************************)
(* Bounds of the model.                                                    *)
(***************************************************************************)
MaxLines == 2    \* lines in the input text
MaxHooks == 2    \* downloader callbacks per item

(***************************************************************************)
(* Characters.  A line is a sequence of characters; the literal pieces of  *)
(* the pattern are written as one element each, the other characters by    *)
(* the class the pattern puts them in.                                     *)
(*   "https", "http" : https://  http://                                   *)
(*   "www"           : www.                                                *)
(*   "watch"         : youtube.com/watch?v=                                *)
(*   "short"         : youtu.be/                                           *)
(*   "id10"          : ten characters of [a-zA-Z0-9_-]                     *)
(*   "idc"           : one character of [a-zA-Z0-9_-]                      *)
(*   "amp"           : one character of the trailing class only (& = ? #)  *)
(*   "sp"            : a blank                                             *)
(*   "slash"         : a character outside every class of the pattern (/)  *)
(*   "nl"            : line break                                          *)
(***************************************************************************)
IdLen == 11

\* Number of leading characters of an element that are in [a-zA-Z0-9_-],
\* its length, and whether all its characters are in the trailing class.
CharLen(c) ==
    CASE c = "id10" -> 10
      [] c = "www" -> 4
      [] c = "https" -> 8
      [] c = "http" -> 7
      [] c = "watch" -> 20
      [] c = "short" -> 9
      [] OTHER -> 1

IdPrefix(c) ==
    CASE c = "id10" -> 10
      [] c = "idc" -> 1
      [] c = "www" -> 3
      [] c = "https" -> 5
      [] c = "http" -> 4
      [] c = "watch" -> 7
      [] c = "short" -> 5
      [] OTHER -> 0

InTailClass(c) == c \in {"id10", "idc", "amp", "sp", "www"}

\* str.strip(): drop leading and trailing blanks.
RECURSIVE LStrip(_)
LStrip(s) == IF s # << >> /\ Head(s) = "sp" THEN LStrip(Tail(s)) ELSE s

RECURSIVE RStrip(_)
RStrip(s) ==
    IF s # << >> /\ s[Len(s)] = "sp" THEN RStrip(SubSeq(s, 1, Len(s) - 1)) ELSE s

Strip(s) == RStrip(LStrip(s))

\* str.splitlines(): cut at line breaks; a trailing break adds no empty line.
RECURSIVE SplitLines(_, _)
SplitLines(s, cur) ==
    IF s = << >> THEN (IF cur = << >> THEN << >> ELSE << cur >>)
    ELSE IF Head(s) = "nl" THEN << cur >> \o SplitLines(Tail(s), << >>)
    ELSE SplitLines(Tail(s), Append(cur, Head(s)))

\* ([a-zA-Z0-9_-]{11})([...]*)?$ on the rest of the line: the first n
\* characters are identifier characters, all the others are in the
\* trailing class.
RECURSIVE MatchIdTail(_, _)
MatchIdTail(s, n) ==
    IF n = 0 THEN \A k \in 1..Len(s) : InTailClass(s[k])
    ELSE IF s = << >> THEN FALSE
    ELSE LET c == Head(s) IN
         IF CharLen(c) <= n
         THEN IdPrefix(c) = CharLen(c) /\ MatchIdTail(Tail(s), n - CharLen(c))
         ELSE /\ IdPrefix(c) >= n
              /\ c \in {"id10", "www"}
              /\ \A k \in 2..Len(s) : InTailClass(s[k])

\* YOUTUBE_URL_PATTERN.match(u)
YOUTUBE_URL_PATTERN(u) ==
    LET a == IF u # << >> /\ Head(u) \in {"https", "http"} THEN Tail(u) ELSE u
        b == IF a # << >> /\ Head(a) = "www" THEN Tail(a) ELSE a
    IN  /\ b # << >>
        /\ Head(b) \in {"watch", "short"}
        /\ MatchIdTail(Tail(b), IdLen)

\* [url.strip() for url in urls.splitlines() if url.strip()]
RECURSIVE StripNonEmpty(_)
StripNonEmpty(ls) ==
    IF ls = << >> THEN << >>
    ELSE (IF Strip(Head(ls)) # << >> THEN << Strip(Head(ls)) >> ELSE << >>)
         \o StripNonEmpty(Tail(ls))

RawUrlList(text) == StripNonEmpty(SplitLines(text, << >>))

\* a validator that puts each accepted line in front of the earlier ones
RECURSIVE ValidUrlsPrepended(_)
ValidUrlsPrepended(ls) ==
    IF ls = << >> THEN << >>
    ELSE ValidUrlsPrepended(Tail(ls))
         \o (IF YOUTUBE_URL_PATTERN(Head(ls)) THEN << Head(ls) >> ELSE << >>)

\* the loop of lines 67-72: accepted lines are appended in order
RECURSIVE ValidUrls(_)
ValidUrls(ls) ==
    IF ls = << >> THEN << >>
    ELSE (IF YOUTUBE_URL_PATTERN(Head(ls)) THEN << Head(ls) >> ELSE << >>)
         \o ValidUrls(Tail(ls))

RECURSIVE SkippedUrls(_)
SkippedUrls(ls) ==
    IF ls = << >> THEN << >>
    ELSE (IF YOUTUBE_URL_PATTERN(Head(ls)) THEN << >> ELSE << Head(ls) >>)
         \o SkippedUrls(Tail(ls))

(***************************************************************************)
(* Inputs: texts of at most MaxLines lines drawn from sample lines.        *)
(***************************************************************************)
LineCanonical == << "https", "www", "watch", "id10", "idc" >>
LineShort     == << "sp", "short", "id10", "idc", "amp", "idc", "sp" >>
LineNotUrl    == << "idc", "sp", "idc" >>
LineBlank     == << "sp" >>

SampleLines == { LineCanonical, LineShort, LineNotUrl, LineBlank }

RECURSIVE JoinLines(_)
JoinLines(ls) ==
    IF ls = << >> THEN << >>
    ELSE IF Len(ls) = 1 THEN Head(ls)
    ELSE Head(ls) \o << "nl" >> \o JoinLines(Tail(ls))

Texts ==
    { JoinLines(ls) : ls \in UNION { [1..n -> SampleLines] : n \in 0..MaxLines } }

\* More lines for the validator alone: no scheme, http short link, an
\* identifier of ten characters, no host, and a query holding a character
\* that the trailing class of the pattern leaves out (/ , ~ * $).
LineNoScheme  == << "www", "watch", "id10", "idc", "amp", "idc" >>
LineHttpShort == << "http", "short", "id10", "idc" >>
LineShortId   == << "https", "www", "watch", "id10" >>
LineNoHost    == << "https", "www", "id10", "idc" >>
LineSlashTail == << "https", "short", "id10", "idc", "amp", "idc", "slash", "idc" >>

ValidatorLines ==
    SampleLines \cup { LineNoScheme, LineHttpShort, LineShortId, LineNoHost,
                       LineSlashTail }

ValidatorTexts ==
    { JoinLines(ls) : ls \in UNION { [1..n -> ValidatorLines] : n \in 0..MaxLines } }


(***************************************************************************)
(* Values exchanged with the downloader.                                   *)
(***************************************************************************)
\* a path in the batch directory: outtmpl is <dir>/<title>.<ext>, one title
\* per video, so the file is named by the URL it comes from
NoPath == [name |-> << >>, ext |-> None]
NoInfo == [title |-> None, filepath |-> NoPath]

\* what the downloader can report: no path, or a path with one of these
\* extensions, the file being on disk or not
Artifacts ==
    { [ext |-> None, written |-> FALSE],
      [ext |-> "mp3", written |-> TRUE],
      [ext |-> "mp3", written |-> FALSE],
      [ext |-> "MP3", written |-> TRUE],
      [ext |-> "wav", written |-> TRUE] }

\* str.lower() on the extension
Lower(e) == IF e = "MP3" THEN "mp3" ELSE e

\* the '_percent_str' entry of a callback payload: absent, a decimal number
\* (in tenths of a percent) followed by %, text that float() rejects
\* ("N/A", "Unknown %"), or "nan%", which float() accepts
PercentAbsent == [kind |-> "absent", tenths |-> 0]
PercentText   == [kind |-> "text", tenths |-> 0]
PercentNaN    == [kind |-> "nan", tenths |-> 0]
PercentNum(t) == [kind |-> "num", tenths |-> t]

PercentStrs == { PercentAbsent, PercentText, PercentNaN, PercentNum(500) }

NoHook == [status |-> None, percent |-> PercentAbsent]

Payloads ==
    { [status |-> "downloading", percent |-> p] : p \in PercentStrs }
    \cup { [status |-> "finished", percent |-> PercentAbsent],
           [status |-> "error", percent |-> PercentAbsent] }

UnknownVideo == "Unknown Video"
ProbeTitle == "title of probe"
DownloadTitle == "title of download"

\* line 120: the placeholder title built from the identifier in the URL
FallbackTitle(url) == "Video from id"

Init ==
    /\ urls \in Texts
    /\ pc = "start"
    /\ raw_url_list = << >>
    /\ valid_urls_to_process = << >>
    /\ i = 0
    /\ download_links = << >>
    /\ processing_done = FALSE
    /\ base_exists \in BOOLEAN
    /\ base_creatable \in BOOLEAN
    /\ (base_exists => base_creatable)
    /\ current_batch_temp_dir = None
    /\ batch_dirs = {}
    /\ files = {}
    /\ video_title = None
    /\ processed_info = NoInfo
    /\ progress_log = << >>
    /\ hooks = 0
    /\ hook_d = NoHook
    /\ exc = None
    /\ probe_warning = FALSE
    /\ statuses = << >>
    /\ skipped = << >>
    /\ reports = {}
    /\ prior_results = FALSE
    /\ race = << >>

\* the same start, the text drawn from the validator's lines
InitValidator ==
    /\ urls \in ValidatorTexts
    /\ pc = "start"
    /\ raw_url_list = << >>
    /\ valid_urls_to_process = << >>
    /\ i = 0
    /\ download_links = << >>
    /\ processing_done = FALSE
    /\ base_exists \in BOOLEAN
    /\ base_creatable \in BOOLEAN
    /\ (base_exists => base_creatable)
    /\ current_batch_temp_dir = None
    /\ batch_dirs = {}
    /\ files = {}
    /\ video_title = None
    /\ processed_info = NoInfo
    /\ progress_log = << >>
    /\ hooks = 0
    /\ hook_d = NoHook
    /\ exc = None
    /\ probe_warning = FALSE
    /\ statuses = << >>
    /\ skipped = << >>
    /\ reports = {}
    /\ prior_results = FALSE
    /\ race = << >>

fs_vars == << base_exists, base_creatable, current_batch_temp_dir, batch_dirs, files >>
item_vars == << video_title, processed_info, progress_log, hooks, hook_d, exc,
               probe_warning >>

(***************************************************************************)
(* process_videos, lines 53-76: reset of the session state, splitting and  *)
(* validation, with the three early returns.                               *)
(***************************************************************************)
\* the return of line 76 left out
AfterValidationNoReturn(valid) == "ensure"

\* lines 74-78: with no accepted line the function returns
AfterValidation(valid) == IF valid = << >> THEN "done" ELSE "ensure"

\* line 53 left out: the records of the session stay
SessionResetSkipped(links) == links

\* line 53: st.session_state.download_links = []
SessionReset(links) == << >>

Validate ==
    /\ pc = "start"
    /\ UNCHANGED outside_vars
    /\ download_links' = SessionReset(download_links)
    /\ processing_done' = FALSE
    /\ IF urls = << >>
       THEN /\ reports' = reports \cup {"empty_input"}
            /\ pc' = "done"
            /\ UNCHANGED << raw_url_list, valid_urls_to_process, skipped >>
       ELSE /\ raw_url_list' = RawUrlList(urls)
            /\ IF raw_url_list' = << >>
               THEN /\ reports' = reports \cup {"no_urls"}
                    /\ pc' = "done"
                    /\ UNCHANGED << valid_urls_to_process, skipped >>
               ELSE /\ valid_urls_to_process' = ValidUrls(raw_url_list')
                    /\ skipped' = SkippedUrls(raw_url_list')
                    /\ reports' = IF valid_urls_to_process' = << >>
                                  THEN reports \cup {"no_valid"}
                                  ELSE reports
                    /\ pc' = AfterValidation(valid_urls_to_process')
    /\ UNCHANGED << urls, i, statuses >>
    /\ UNCHANGED fs_vars
    /\ UNCHANGED item_vars


(***************************************************************************)
(* ensure_base_temp_dir, lines 17-24 (called at line 78).  A failed        *)
(* os.makedirs is reported and st.stop() ends the run.                     *)
(***************************************************************************)
\* st.stop() of line 24 left out: the run goes on after the error message
EnsureBaseTempDirNoStop ==
    /\ pc = "ensure"
    /\ UNCHANGED outside_vars
    /\ IF base_exists \/ base_creatable
       THEN /\ base_exists' = TRUE
            /\ UNCHANGED reports
       ELSE /\ reports' = reports \cup {"fatal_root"}
            /\ UNCHANGED base_exists
    /\ pc' = "mkdtemp"
    /\ UNCHANGED << urls, raw_url_list, valid_urls_to_process, i, download_links,
                    processing_done, base_creatable, current_batch_temp_dir,
                    batch_dirs, files, statuses, skipped >>
    /\ UNCHANGED item_vars

EnsureBaseTempDir ==
    /\ pc = "ensure"
    /\ UNCHANGED outside_vars
    /\ IF base_exists
       THEN /\ pc' = "mkdtemp"
            /\ UNCHANGED << base_exists, reports >>
       ELSE IF base_creatable
            THEN /\ base_exists' = TRUE
                 /\ pc' = "mkdtemp"
                 /\ UNCHANGED reports
            ELSE /\ reports' = reports \cup {"fatal_root"}
                 /\ pc' = "done"
                 /\ UNCHANGED base_exists
    /\ UNCHANGED << urls, raw_url_list, valid_urls_to_process, i, download_links,
                    processing_done, base_creatable, current_batch_temp_dir,
                    batch_dirs, files, statuses, skipped >>
    /\ UNCHANGED item_vars

DirNames == {"batch_1", "batch_2"}

\* tempfile.mkdtemp(dir=BASE_TEMP_AUDIO_DIR): a name not in use
FreshDir == CHOOSE d \in DirNames : d \notin batch_dirs

\* the handler of line 184-185
BatchExcept ==
    /\ reports' = reports \cup {"critical"}
    /\ pc' = "finally"

(***************************************************************************)
(* Lines 80-82: the batch directory is created; an OSError of mkdtemp is   *)
(* caught at line 184 with current_batch_temp_dir still None.              *)
(***************************************************************************)
Mkdtemp ==
    /\ pc = "mkdtemp"
    /\ UNCHANGED outside_vars
    /\ \E ok \in BOOLEAN :
         IF ok
         THEN /\ current_batch_temp_dir' = FreshDir
              /\ batch_dirs' = batch_dirs \cup {FreshDir}
              /\ i' = 1
              /\ pc' = "loop"
              /\ UNCHANGED reports
         ELSE /\ BatchExcept
              /\ UNCHANGED << current_batch_temp_dir, batch_dirs, i >>
    /\ UNCHANGED << urls, raw_url_list, valid_urls_to_process, download_links,
                    processing_done, base_exists, base_creatable, files,
                    statuses, skipped >>
    /\ UNCHANGED item_vars

(***************************************************************************)
(* Lines 84-111: the head of the loop body.  The widgets of the item are   *)
(* created (progress bar at 0) and hook_data is initialised.  These calls  *)
(* are outside the try of line 113: an exception of the UI toolkit here is *)
(* caught by the handler of line 184.                                      *)
(***************************************************************************)
ItemSetup ==
    /\ pc = "loop"
    /\ UNCHANGED outside_vars
    /\ i <= Len(valid_urls_to_process)
    /\ \E ok \in BOOLEAN :
         IF ok
         THEN /\ progress_log' = << 0 >>
              /\ video_title' = UnknownVideo
              /\ processed_info' = NoInfo
              /\ hooks' = 0
              /\ hook_d' = NoHook
              /\ exc' = None
              /\ probe_warning' = FALSE
              /\ pc' = "probe"
              /\ UNCHANGED reports
         ELSE /\ BatchExcept
              /\ UNCHANGED item_vars
    /\ UNCHANGED << urls, raw_url_list, valid_urls_to_process, i, download_links,
                    processing_done, statuses, skipped >>
    /\ UNCHANGED fs_vars

(***************************************************************************)
(* The handlers of lines 161-168.                                          *)
(***************************************************************************)
ExceptionClasses == {"DownloadError", "ValueError", "OverflowError", "OSError", "Exception"}

\* the handler of line 165 left out
CaughtOnlyDownloadError(e) == e = "DownloadError"

\* whether an exception raised in the try of line 113 is caught by one of
\* the two handlers of the item (DownloadError, then Exception)
CaughtPerItem(e) == e = "DownloadError" \/ e \in ExceptionClasses

\* an exception e raised in the try body, after the item's progress log and
\* statuses have become log and sts
Raise(e, log, sts) ==
    /\ exc' = e
    /\ IF CaughtPerItem(e)
       THEN /\ statuses' = Append(sts, [item |-> i, kind |-> "error"])
            /\ progress_log' = Append(log, 100)
            /\ i' = i + 1
            /\ pc' = "loop"
            /\ UNCHANGED reports
       ELSE /\ statuses' = sts
            /\ progress_log' = log
            /\ i' = i
            /\ BatchExcept

(***************************************************************************)
(* Lines 113-132: progress 5, the placeholder title, the metadata-only     *)
(* call (whose exception is only a warning), progress 10.                  *)
(***************************************************************************)
ProbeOutcomes == {"raises", "title", "no_title"}

\* lines 120-129: the title after the probe
TitleAfterProbe(r, url) == IF r = "title" THEN ProbeTitle ELSE FallbackTitle(url)

Probe ==
    /\ pc = "probe"
    /\ UNCHANGED outside_vars
    /\ \E r \in ProbeOutcomes :
         /\ video_title' = TitleAfterProbe(r, valid_urls_to_process[i])
         /\ probe_warning' = (r = "raises")
    /\ progress_log' = progress_log \o << 5, 10 >>
    /\ pc' = "download"
    /\ UNCHANGED << urls, raw_url_list, valid_urls_to_process, i, download_links,
                    processing_done, processed_info, hooks, hook_d, exc,
                    statuses, skipped, reports >>
    /\ UNCHANGED fs_vars

(***************************************************************************)
(* progress_hook, lines 26-49.                                             *)
(***************************************************************************)
\* float(percent_str.replace('%', '')) with the ValueError handler of line 38
ParsePercent(p) ==
    CASE p.kind \in {"absent", "num"} -> [kind |-> "finite", tenths |-> p.tenths]
      [] p.kind = "nan" -> [kind |-> "nan", tenths |-> 0]
      [] OTHER -> [kind |-> "finite", tenths |-> 0]

\* line 41: 10 + int(percentage * 0.7); int() raises on a NaN
HookResult(d) ==
    IF d.status = "downloading"
    THEN LET x == ParsePercent(d.percent) IN
         IF x.kind = "nan"
         THEN [raises |-> "ValueError", progress |-> << >>]
         ELSE [raises |-> None, progress |-> << 10 + ((x.tenths * 7) \div 100) >>]
    ELSE IF d.status = "finished"
    THEN [raises |-> None, progress |-> << 85 >>]
    ELSE [raises |-> None, progress |-> << >>]

\* a callback of the downloader during extract_info(url, download=True); an
\* exception of the hook leaves extract_info and reaches the item's handlers
Hook ==
    /\ pc = "download"
    /\ UNCHANGED outside_vars
    /\ hooks < MaxHooks
    /\ \E d \in Payloads :
         /\ hook_d' = d
         /\ hooks' = hooks + 1
         /\ LET r == HookResult(d) IN
            IF r.raises # None
            THEN Raise(r.raises, progress_log, statuses)
            ELSE /\ progress_log' = progress_log \o r.progress
                 /\ UNCHANGED << exc, statuses, i, pc, reports >>
    /\ UNCHANGED << urls, raw_url_list, valid_urls_to_process, download_links,
                    processing_done, video_title, processed_info, probe_warning,
                    skipped >>
    /\ UNCHANGED fs_vars

(***************************************************************************)
(* Line 134: ydl.extract_info(url, download=True) returns or raises.       *)
(***************************************************************************)
PathOf(url, e) == [name |-> url, ext |-> e]

\* the call returns an info dict; the file it names was written or not
DownloadReturns ==
    /\ pc = "download"
    /\ UNCHANGED outside_vars
    /\ \E a \in Artifacts :
         LET path == IF a.ext = None THEN NoPath
                     ELSE PathOf(valid_urls_to_process[i], a.ext) IN
         /\ processed_info' = [title |-> DownloadTitle, filepath |-> path]
         /\ files' = IF a.written THEN files \cup {path} ELSE files
    /\ hooks' = 0
    /\ hook_d' = NoHook
    /\ pc' = "resolve"
    /\ UNCHANGED << urls, raw_url_list, valid_urls_to_process, i, download_links,
                    processing_done, base_exists, base_creatable,
                    current_batch_temp_dir, batch_dirs, video_title, progress_log,
                    exc, probe_warning, statuses, skipped, reports >>

\* the call raises; the download may have left a file behind
DownloadRaises ==
    /\ pc = "download"
    /\ UNCHANGED outside_vars
    /\ \E e \in {"DownloadError", "Exception"}, left \in BOOLEAN :
         /\ files' = IF left
                     THEN files \cup {PathOf(valid_urls_to_process[i], "part")}
                     ELSE files
         /\ Raise(e, progress_log, statuses)
    /\ hooks' = 0
    /\ hook_d' = NoHook
    /\ UNCHANGED << urls, raw_url_list, valid_urls_to_process, download_links,
                    processing_done, base_exists, base_creatable,
                    current_batch_temp_dir, batch_dirs, video_title, processed_info,
                    probe_warning, skipped >>

(***************************************************************************)
(* Lines 136-159: the artifact is checked, read, recorded and deleted.     *)
(***************************************************************************)
\* the os.path.exists test of line 139 left out
ArtifactOkWithoutExists(path, fs) ==
    /\ path # NoPath
    /\ Lower(path.ext) = "mp3"

\* line 139
ArtifactOk(path, fs) ==
    /\ path # NoPath
    /\ path \in fs
    /\ Lower(path.ext) = "mp3"

\* line 136 left out: the title of the probe is kept
FinalTitleOfProbe(info, title) == title

\* line 136
FinalTitle(info, title) == IF info.title # None THEN info.title ELSE title

\* lines 147-153
LinkRecord(title, path, url, item) ==
    [title |-> title, filename |-> path, url |-> url, container |-> item]

Resolve ==
    /\ pc = "resolve"
    /\ UNCHANGED outside_vars
    /\ LET url   == valid_urls_to_process[i]
           title == FinalTitle(processed_info, video_title)
           path  == processed_info.filepath
           shown == Append(statuses, [item |-> i, kind |-> "success"])
           log95 == Append(progress_log, 95)
       IN
       /\ video_title' = title
       /\ IF ArtifactOk(path, files)
          THEN \E io \in {"ok", "read_fails", "remove_fails"} :
                 CASE io = "ok" ->
                        /\ download_links' =
                               Append(download_links, LinkRecord(title, path, url, i))
                        /\ files' = files \ {path}
                        /\ progress_log' = Append(log95, 100)
                        /\ statuses' = shown
                        /\ i' = i + 1
                        /\ pc' = "loop"
                        /\ UNCHANGED << exc, reports >>
                   [] io = "read_fails" ->
                        /\ UNCHANGED << download_links, files >>
                        /\ Raise("OSError", log95, shown)
                   [] OTHER ->
                        /\ download_links' =
                               Append(download_links, LinkRecord(title, path, url, i))
                        /\ UNCHANGED files
                        /\ Raise("OSError", log95, shown)
          ELSE /\ statuses' = Append(statuses, [item |-> i, kind |-> "error"])
               /\ progress_log' = Append(progress_log, 100)
               /\ i' = i + 1
               /\ pc' = "loop"
               /\ UNCHANGED << download_links, files, exc, reports >>
    /\ UNCHANGED << urls, raw_url_list, valid_urls_to_process, processing_done,
                    base_exists, base_creatable, current_batch_temp_dir, batch_dirs,
                    processed_info, hooks, hook_d, probe_warning, skipped >>

(***************************************************************************)
(* Lines 170-174: the loop is over.                                        *)
(***************************************************************************)
BatchReport(links) == IF links = << >> THEN "all_failed" ELSE "completed"

Finish ==
    /\ pc = "loop"
    /\ UNCHANGED outside_vars
    /\ i > Len(valid_urls_to_process)
    /\ processing_done' = TRUE
    /\ reports' = reports \cup {BatchReport(download_links)}
    /\ pc' = "finally"
    /\ UNCHANGED << urls, raw_url_list, valid_urls_to_process, i, download_links,
                    statuses, skipped >>
    /\ UNCHANGED fs_vars
    /\ UNCHANGED item_vars

(***************************************************************************)
(* Lines 186-191: the finally clause.  A failing shutil.rmtree is only a   *)
(* warning.                                                                *)
(***************************************************************************)
\* the os.path.exists test of line 187 negated
MustRemoveInverted(dir, dirs) == dir # None /\ dir \notin dirs

\* line 187
MustRemove(dir, dirs) == dir # None /\ dir \in dirs

\* cleanup placed after the loop instead of in a finally clause: skipped
\* when the handler of line 184 has run
FinallySkippedOnError ==
    /\ pc = "finally"
    /\ UNCHANGED outside_vars
    /\ IF MustRemove(current_batch_temp_dir, batch_dirs) /\ "critical" \notin reports
       THEN /\ batch_dirs' = batch_dirs \ {current_batch_temp_dir}
            /\ files' = {}
       ELSE UNCHANGED << batch_dirs, files >>
    /\ pc' = "done"
    /\ UNCHANGED << urls, raw_url_list, valid_urls_to_process, i, download_links,
                    processing_done, base_exists, base_creatable,
                    current_batch_temp_dir, statuses, skipped, reports >>
    /\ UNCHANGED item_vars

\* the try of lines 188-191 left out: a failing rmtree leaves process_videos
\* as an exception
FinallyRmtreeRaises ==
    /\ pc = "finally"
    /\ UNCHANGED outside_vars
    /\ IF MustRemove(current_batch_temp_dir, batch_dirs)
       THEN \E ok \in BOOLEAN :
              IF ok
              THEN /\ batch_dirs' = batch_dirs \ {current_batch_temp_dir}
                   /\ files' = {}
                   /\ pc' = "done"
              ELSE /\ pc' = "raised"
                   /\ UNCHANGED << batch_dirs, files >>
       ELSE /\ pc' = "done"
            /\ UNCHANGED << batch_dirs, files >>
    /\ UNCHANGED << urls, raw_url_list, valid_urls_to_process, i, download_links,
                    processing_done, base_exists, base_creatable,
                    current_batch_temp_dir, statuses, skipped, reports >>
    /\ UNCHANGED item_vars

Finally ==
    /\ pc = "finally"
    /\ UNCHANGED outside_vars
    /\ IF MustRemove(current_batch_temp_dir, batch_dirs)
       THEN \E ok \in BOOLEAN :
              IF ok
              THEN /\ batch_dirs' = batch_dirs \ {current_batch_temp_dir}
                   /\ files' = {}
                   /\ UNCHANGED reports
              ELSE /\ reports' = reports \cup {"cleanup_warning"}
                   /\ UNCHANGED << batch_dirs, files >>
       ELSE UNCHANGED << batch_dirs, files, reports >>
    /\ pc' = "done"
    /\ UNCHANGED << urls, raw_url_list, valid_urls_to_process, i, download_links,
                    processing_done, base_exists, base_creatable,
                    current_batch_temp_dir, statuses, skipped >>
    /\ UNCHANGED item_vars

(***************************************************************************)
(* Properties.                                                             *)
(***************************************************************************)
NumValid == Len(valid_urls_to_process)

\* Success records and error statuses of item k
LinksOf(k) == { j \in 1..Len(download_links) : download_links[j].container = k }
ErrorsOf(k) ==
    { j \in 1..Len(statuses) : statuses[j].item = k /\ statuses[j].kind = "error" }
SuccessShown(k) ==
    \E j \in 1..Len(statuses) : statuses[j].item = k /\ statuses[j].kind = "success"

HasOutcome(k) == LinksOf(k) # {} \/ ErrorsOf(k) # {}

\* C1: when a run that went through the whole per-item loop has returned,
\* every validated URL has exactly one terminal outcome, one Success record
\* or one error status, never both and never neither.
C1_ExactlyOneOutcome ==
    (pc = "done" /\ processing_done) =>
        \A k \in 1..NumValid :
            \/ Cardinality(LinksOf(k)) = 1 /\ ErrorsOf(k) = {}
            \/ LinksOf(k) = {} /\ Cardinality(ErrorsOf(k)) = 1

\* C2 as stated: when process_videos has returned, by any path, the batch
\* directory created by the run is gone.
C2_NoLeftoverDirectory ==
    pc = "done" => current_batch_temp_dir \notin batch_dirs

\* C2 as amended: when process_videos has returned, by any path, the batch
\* directory created by the run is gone unless its removal failed, and then
\* the cleanup warning has been emitted.
C2_NoLeftoverUnlessRemovalFailed ==
    pc = "done" =>
        \/ current_batch_temp_dir \notin batch_dirs
        \/ "cleanup_warning" \in reports

\* a run in which an error escaped the item loop has returned and its batch
\* directory, with a file left in it, has been removed
C2_Witness ==
    /\ pc = "done"
    /\ "critical" \in reports
    /\ current_batch_temp_dir # None
    /\ batch_dirs = {}
    /\ statuses # << >>

RECURSIVE IsSubsequence(_, _)
IsSubsequence(a, b) ==
    IF a = << >> THEN TRUE
    ELSE IF b = << >> THEN FALSE
    ELSE IF Head(a) = Head(b) THEN IsSubsequence(Tail(a), Tail(b))
    ELSE IsSubsequence(a, Tail(b))

\* the lines of the text, each stripped
StrippedLines ==
    LET ls == SplitLines(urls, << >>) IN [k \in 1..Len(ls) |-> Strip(ls[k])]

\* C4: the validated URLs keep the order of the input lines (looked at right
\* after validation and when the run has returned); an item starts only when
\* every earlier item has its outcome and no later item has any; statuses
\* and Success records appear in the order of the validated URLs.
C4_SequentialInOrder ==
    /\ pc \in {"ensure", "done"} => IsSubsequence(valid_urls_to_process, StrippedLines)
    /\ \A k \in 1..NumValid :
           /\ (i >= 1 /\ k < i) => HasOutcome(k)
           /\ k >= i => (~HasOutcome(k) /\ ~SuccessShown(k))
           /\ (k = i /\ pc \in {"probe", "download", "resolve"}) => ~HasOutcome(k)
    /\ \A j \in 1..Len(statuses) : statuses[j].item \in 1..NumValid
    /\ \A j \in 1..(Len(statuses) - 1) : statuses[j].item <= statuses[j + 1].item
    /\ \A j \in 1..(Len(download_links) - 1) :
           download_links[j].container < download_links[j + 1].container
    /\ \A j \in 1..Len(download_links) :
           /\ download_links[j].container \in 1..NumValid
           /\ download_links[j].url = valid_urls_to_process[download_links[j].container]

\* two different URLs, the short link first, have both succeeded
C4_Witness ==
    /\ pc = "done"
    /\ NumValid = 2
    /\ valid_urls_to_process[1] = Strip(LineShort)
    /\ valid_urls_to_process[1] # valid_urls_to_process[2]
    /\ Len(download_links) = 2

\* no line of the text is accepted by the validator
ZeroAccepted ==
    LET ls == StrippedLines IN \A k \in 1..Len(ls) : ~YOUTUBE_URL_PATTERN(ls[k])

\* C5: a run on a text with no accepted line ends in its first step with a
\* no-input report, and that step creates neither the base root nor a batch
\* directory and processes no item.
C5_NoValidInputNoWorkspace ==
    [][ (pc = "start" /\ ZeroAccepted) =>
            /\ pc' = "done"
            /\ reports' \in {{"empty_input"}, {"no_urls"}, {"no_valid"}}
            /\ base_exists' = base_exists
            /\ batch_dirs' = batch_dirs
            /\ current_batch_temp_dir' = None
            /\ i' = 0
            /\ statuses' = << >>
            /\ download_links' = << >> ]_vars

\* every line was rejected; the base root is absent, could be created, and
\* was not
C5_Witness ==
    /\ pc = "done"
    /\ "no_valid" \in reports
    /\ ~base_exists
    /\ base_creatable

\* C6: at most one artifact file is in the batch directory at any time, and
\* none is there when the processing of an item starts.
C6_AtMostOneArtifact ==
    /\ Cardinality(files) <= 1
    /\ pc = "probe" => files = {}

\* the three conditions of artifact resolution on the reported path
ReportedArtifactValid ==
    /\ processed_info.filepath # NoPath
    /\ processed_info.filepath \in files
    /\ processed_info.filepath.ext \in {"mp3", "MP3"}

\* C7: the step that resolves the artifact records a Success only if a path
\* was reported, the file is on disk and its extension is mp3 (in either
\* letter case); if one of the three fails the item gets an error status,
\* no Success record is added and the loop moves on to the next URL.
C7_SuccessOnlyForValidArtifact ==
    [][ pc = "resolve" =>
            /\ download_links' # download_links => ReportedArtifactValid
            /\ ~ReportedArtifactValid =>
                   /\ download_links' = download_links
                   /\ statuses' = Append(statuses, [item |-> i, kind |-> "error"])
                   /\ pc' = "loop"
                   /\ i' = i + 1
                   /\ reports' = reports ]_vars

\* the first item was failed for a .wav artifact, which is still on disk,
\* and the second item has succeeded
C7_Witness ==
    /\ pc = "finally"
    /\ processing_done
    /\ NumValid = 2
    /\ PathOf(valid_urls_to_process[1], "wav") \in files
    /\ LinksOf(1) = {}
    /\ ErrorsOf(1) # {}
    /\ LinksOf(2) # {}

\* C8: the step of the metadata probe never fails the item and always goes
\* on to the download; after a failed probe, a download that returns a valid
\* artifact which is read and deleted without error gives a Success record,
\* and a Success record carries the title returned by the download call.
C8_ProbeFailureNotFatal ==
    [][ /\ pc = "probe" =>
               /\ pc' = "download"
               /\ i' = i
               /\ exc' = None
               /\ statuses' = statuses
        /\ (pc = "resolve" /\ probe_warning /\ ReportedArtifactValid /\ exc' = None) =>
               /\ Len(download_links') = Len(download_links) + 1
               /\ statuses' = Append(statuses, [item |-> i, kind |-> "success"])
        /\ (pc = "resolve" /\ probe_warning /\ download_links' # download_links) =>
               /\ download_links'[Len(download_links')].container = i
               /\ download_links'[Len(download_links')].title = processed_info.title
      ]_vars

\* the probe of the item just finished had failed and the item succeeded
C8_Witness ==
    /\ pc = "loop"
    /\ i >= 2
    /\ probe_warning
    /\ exc = None
    /\ LinksOf(i - 1) # {}
    /\ ErrorsOf(i - 1) = {}

\* C9: the values sent to the progress bar of an item never decrease.
C9_ProgressNonDecreasing ==
    \A k \in 1..(Len(progress_log) - 1) : progress_log[k] <= progress_log[k + 1]

\* the percent string of a payload is missing, or is not a number
PercentUnusable(d) == d.percent.kind \in {"absent", "text", "nan"}

\* C10: a 'downloading' callback whose percent string is missing or is not a
\* number does not raise: the step reports progress 10 (percentage 0) and the
\* download goes on.
C10_UnusablePercentIsZero ==
    [][ (hooks' = hooks + 1 /\ hook_d'.status = "downloading" /\ PercentUnusable(hook_d')) =>
            /\ exc' = None
            /\ pc' = "download"
            /\ progress_log' = Append(progress_log, 10) ]_vars

\* C11: when a run has gone through its validated URLs, it is reported as
\* fully failed exactly if every item has a Failure report, and as completed
\* if some item has a Success record.
C11_FullyFailedIffAllFailed ==
    (pc = "done" /\ processing_done) =>
        /\ ("all_failed" \in reports) <=> (\A k \in 1..NumValid : ErrorsOf(k) # {})
        /\ (\E k \in 1..NumValid : LinksOf(k) # {}) => "completed" \in reports

\* C12: the step of the finally clause always ends the run normally and
\* leaves download_links and processing_done as they were; when the batch
\* directory could not be removed it only adds the cleanup warning.
C12_CleanupFailureIsWarning ==
    [][ pc = "finally" =>
            /\ pc' = "done"
            /\ download_links' = download_links
            /\ processing_done' = processing_done
            /\ reports' \in {reports, reports \cup {"cleanup_warning"}}
            /\ (current_batch_temp_dir \in batch_dirs') =>
                   "cleanup_warning" \in reports' ]_vars

\* a run with a Success record has returned after a failed removal
C12_Witness ==
    /\ pc = "done"
    /\ "cleanup_warning" \in reports
    /\ current_batch_temp_dir \in batch_dirs
    /\ processing_done
    /\ download_links # << >>

\* C13: when the base root is absent and cannot be created, a run that got
\* past validation has stopped with the fatal error: no batch directory,
\* no item started, no outcome recorded.
C13_RootFailureHaltsRun ==
    (~base_exists /\ ~base_creatable /\ pc \notin {"start", "ensure"}) =>
        /\ pc = "done"
        /\ NumValid > 0 => "fatal_root" \in reports
        /\ "critical" \notin reports
        /\ current_batch_temp_dir = None
        /\ batch_dirs = {}
        /\ i = 0
        /\ progress_log = << >>
        /\ statuses = << >>
        /\ download_links = << >>
        /\ ~processing_done

\* a run with two validated URLs was stopped by the fatal error
C13_Witness ==
    /\ pc = "done"
    /\ "fatal_root" \in reports
    /\ NumValid = 2
    /\ ~base_exists

\* the release of the batch directory has taken place: the directory is gone,
\* or its removal failed with the warning
Released ==
    /\ current_batch_temp_dir # None
    /\ \/ current_batch_temp_dir \notin batch_dirs
       \/ "cleanup_warning" \in reports

\* C16: while an item is awaited or processed the batch directory exists and
\* has not been released; the release takes place in one step only, the one
\* of the finally clause, after the loop has ended or an error has escaped
\* it; the run has then returned, so there is no second release.
C16_AcquireReleaseBracket ==
    [][ /\ pc \in {"loop", "probe", "download", "resolve"} =>
               /\ current_batch_temp_dir \in batch_dirs
               /\ ~Released
        /\ pc' \in {"loop", "probe", "download", "resolve"} =>
               current_batch_temp_dir' \in batch_dirs'
        /\ (~Released /\ Released') =>
               /\ pc = "finally"
               /\ processing_done \/ "critical" \in reports
        /\ (pc = "finally" /\ current_batch_temp_dir # None) => Released'
        /\ Released' => pc' = "done"
        /\ Released => Released' ]_vars

\* both validated URLs got their outcome and the directory was then removed
C16_Witness ==
    /\ pc = "done"
    /\ processing_done
    /\ NumValid = 2
    /\ Len(statuses) >= 2
    /\ Released
    /\ batch_dirs = {}

\* C17: an item for which the success status was shown has a Success record
\* and no error status.
C17_SuccessStatusIsFinal ==
    \A k \in 1..NumValid :
        (k < i /\ SuccessShown(k)) => (LinksOf(k) # {} /\ ErrorsOf(k) = {})

\* C18: between items and after the loop, the file named by a Success record
\* is no longer in the batch directory.
C18_SuccessFileDeleted ==
    pc \in {"loop", "finally", "done"} =>
        \A j \in 1..Len(download_links) : download_links[j].filename \notin files

(***************************************************************************)
(* A further invocation of process_videos in the same session (line 51):   *)
(* the locals and the page are fresh, st.session_state and the file system *)
(* are as the earlier invocation left them.  The text has at most one      *)
(* line; mkdtemp needs a directory name that is not in use.                *)
(***************************************************************************)
OneLineTexts == { << >> } \cup SampleLines

Reinvoke ==
    /\ pc = "done"
    /\ batch_dirs # DirNames
    /\ urls' \in OneLineTexts
    /\ pc' = "start"
    /\ prior_results' = (download_links # << >>)
    /\ raw_url_list' = << >>
    /\ valid_urls_to_process' = << >>
    /\ i' = 0
    /\ current_batch_temp_dir' = None
    /\ files' = {}
    /\ video_title' = None
    /\ processed_info' = NoInfo
    /\ progress_log' = << >>
    /\ hooks' = 0
    /\ hook_d' = NoHook
    /\ exc' = None
    /\ probe_warning' = FALSE
    /\ statuses' = << >>
    /\ skipped' = << >>
    /\ reports' = {}
    /\ UNCHANGED << download_links, processing_done, base_exists, base_creatable,
                    batch_dirs, race >>

(***************************************************************************)
(* Two sessions running process_videos at the same time.  Of each run the  *)
(* steps that touch the shared file system are kept apart: the test of     *)
(* line 19, os.makedirs of line 21, mkdtemp of line 82, rmtree of line 189.*)
(* The items of a run are processed inside its own directory.              *)
(***************************************************************************)
Runs == {"run_a", "run_b"}

run_vars == << urls, pc, raw_url_list, valid_urls_to_process, i, download_links,
              processing_done, base_creatable, current_batch_temp_dir, files,
              statuses, skipped, reports, prior_results >>

InitRace ==
    /\ urls = << >>
    /\ pc = "start"
    /\ raw_url_list = << >>
    /\ valid_urls_to_process = << >>
    /\ i = 0
    /\ download_links = << >>
    /\ processing_done = FALSE
    /\ base_exists \in BOOLEAN
    /\ base_creatable \in BOOLEAN
    /\ (base_exists => base_creatable)
    /\ current_batch_temp_dir = None
    /\ batch_dirs = {}
    /\ files = {}
    /\ video_title = None
    /\ processed_info = NoInfo
    /\ progress_log = << >>
    /\ hooks = 0
    /\ hook_d = NoHook
    /\ exc = None
    /\ probe_warning = FALSE
    /\ statuses = << >>
    /\ skipped = << >>
    /\ reports = {}
    /\ prior_results = FALSE
    /\ race \in [Runs -> { [pc |-> "start", urls |-> t, dir |-> None] :
                              t \in OneLineTexts }]

MoveRun(r, p) == [race EXCEPT ![r].pc = p]

\* lines 53-76
RaceValidate(r) ==
    /\ race[r].pc = "start"
    /\ race' = MoveRun(r, IF ValidUrls(RawUrlList(race[r].urls)) = << >>
                          THEN "done" ELSE "exists")
    /\ UNCHANGED << base_exists, batch_dirs >>
    /\ UNCHANGED run_vars
    /\ UNCHANGED item_vars

\* line 19: if not os.path.exists(BASE_TEMP_AUDIO_DIR)
RaceExists(r) ==
    /\ race[r].pc = "exists"
    /\ race' = MoveRun(r, IF base_exists THEN "mkdtemp" ELSE "makedirs")
    /\ UNCHANGED << base_exists, batch_dirs >>
    /\ UNCHANGED run_vars
    /\ UNCHANGED item_vars

\* lines 20-24: os.makedirs without exist_ok raises OSError (FileExistsError)
\* when the directory is there, and OSError when it cannot be created
RaceMakedirs(r) ==
    /\ race[r].pc = "makedirs"
    /\ IF ~base_exists /\ base_creatable
       THEN /\ base_exists' = TRUE
            /\ race' = MoveRun(r, "mkdtemp")
       ELSE /\ race' = MoveRun(r, "fatal")
            /\ UNCHANGED base_exists
    /\ UNCHANGED batch_dirs
    /\ UNCHANGED run_vars
    /\ UNCHANGED item_vars

\* lines 80-82, with the outer handler of lines 184-185
RaceMkdtemp(r) ==
    /\ race[r].pc = "mkdtemp"
    /\ \E ok \in BOOLEAN :
         IF ok
         THEN /\ batch_dirs' = batch_dirs \cup {FreshDir}
              /\ race' = [race EXCEPT ![r].pc = "batch", ![r].dir = FreshDir]
         ELSE /\ race' = MoveRun(r, "finally")
              /\ UNCHANGED batch_dirs
    /\ UNCHANGED base_exists
    /\ UNCHANGED run_vars
    /\ UNCHANGED item_vars

\* lines 84-185
RaceBatch(r) ==
    /\ race[r].pc = "batch"
    /\ race' = MoveRun(r, "finally")
    /\ UNCHANGED << base_exists, batch_dirs >>
    /\ UNCHANGED run_vars
    /\ UNCHANGED item_vars

\* lines 186-191
RaceFinally(r) ==
    /\ race[r].pc = "finally"
    /\ IF MustRemove(race[r].dir, batch_dirs)
       THEN \E ok \in BOOLEAN :
              batch_dirs' = IF ok THEN batch_dirs \ {race[r].dir} ELSE batch_dirs
       ELSE UNCHANGED batch_dirs
    /\ race' = MoveRun(r, "done")
    /\ UNCHANGED base_exists
    /\ UNCHANGED run_vars
    /\ UNCHANGED item_vars

\* C19: a run of two concurrent ones is stopped by the fatal error of
\* ensure_base_temp_dir only if the base root cannot be created.
C19_FatalOnlyIfNotCreatable ==
    \A r \in DOMAIN race : race[r].pc = "fatal" => ~base_creatable

\* C15: once an invocation has reset the session state, download_links holds
\* only records of URLs validated in this invocation: at most one per
\* validated URL, each naming its URL by position, in the order of the URLs.
C15_ResultsNotRetained ==
    pc # "start" =>
        /\ Len(download_links) <= NumValid
        /\ \A j \in 1..Len(download_links) :
              /\ download_links[j].container \in 1..NumValid
              /\ download_links[j].url =
                     valid_urls_to_process[download_links[j].container]
        /\ \A j, k \in 1..Len(download_links) :
              j < k => download_links[j].container < download_links[k].container

\* an invocation that began with records of an earlier one has returned with
\* an input error and no record
C15_Witness ==
    /\ pc = "done"
    /\ prior_results
    /\ "no_valid" \in reports
    /\ download_links = << >>
    /\ ~processing_done

\* the identifier characters a line starts with
RECURSIVE LeadingIdChars(_)
LeadingIdChars(s) ==
    IF s # << >> /\ Head(s) \in {"id10", "idc"}
    THEN CharLen(Head(s)) + LeadingIdChars(Tail(s))
    ELSE 0

\* what follows the optional scheme and www.
AfterPrefix(u) ==
    LET a == IF u # << >> /\ Head(u) \in {"https", "http"} THEN Tail(u) ELSE u
    IN  IF a # << >> /\ Head(a) = "www" THEN Tail(a) ELSE a

HasHost(u) == AfterPrefix(u) # << >> /\ Head(AfterPrefix(u)) \in {"watch", "short"}

\* a single-video URL: host, an identifier of exactly eleven characters,
\* then nothing or a query/fragment without blanks
WellFormed(u) ==
    /\ HasHost(u)
    /\ LET r == Tail(AfterPrefix(u)) IN
       /\ LeadingIdChars(r) = IdLen
       /\ \A k \in 1..Len(r) : r[k] \in {"id10", "idc", "amp", "slash"}

LacksIdOrHost(u) ==
    \/ ~HasHost(u)
    \/ LeadingIdChars(Tail(AfterPrefix(u))) < IdLen

InSeq(x, sq) == \E k \in 1..Len(sq) : sq[k] = x

\* C14: after validation every stripped line that is a well-formed
\* single-video URL is among the accepted ones, every line without the
\* host or without eleven identifier characters is among the skipped ones,
\* and every line was either accepted or skipped.
C14_ValidatorAcceptsWellFormed ==
    (pc # "start" /\ raw_url_list # << >>) =>
        /\ \A k \in 1..Len(raw_url_list) :
              /\ WellFormed(raw_url_list[k]) =>
                     InSeq(raw_url_list[k], valid_urls_to_process)
              /\ LacksIdOrHost(raw_url_list[k]) =>
                     InSeq(raw_url_list[k], skipped)
        /\ Len(valid_urls_to_process) + Len(skipped) = Len(raw_url_list)

Next ==
    \/ Validate
    \/ EnsureBaseTempDir
    \/ Mkdtemp
    \/ ItemSetup
    \/ Probe
    \/ Hook
    \/ DownloadReturns
    \/ DownloadRaises
    \/ Resolve
    \/ Finish
    \/ Finally

Spec == Init /\ [][Next]_vars

\* invocation after invocation in one session
NextRuns ==
    \/ Next
    \/ Reinvoke

SpecRuns == Init /\ [][NextRuns]_vars

\* two sessions at the same time
NextRace ==
    \E r \in Runs :
        \/ RaceValidate(r)
        \/ RaceExists(r)
        \/ RaceMakedirs(r)
        \/ RaceMkdtemp(r)
        \/ RaceBatch(r)
        \/ RaceFinally(r)

SpecRace == InitRace /\ [][NextRace]_vars

\* the validator alone, on its wider set of lines
NextValidator == Validate

SpecValidator == InitValidator /\ [][NextValidator]_vars
====
